---- MODULE Spec2Model ----
(***************************************************************************)
(* Blocklist cache of email-analyzer (src/src/blacklists.py): feed files,  *)
(* the SQLite range store DATA_DIR/networks.db, the fetch metadata and the *)
(* callers of ip_in_any_blacklist, rebuild_cache and update_feed.          *)
(*                                                                         *)
(* Addresses are scaled down: an IPv4 address has V4Bytes bytes and an     *)
(* IPv6 address V6Bytes bytes of BitsPerByte bits each.  The store keeps   *)
(* the packed big-endian byte strings and compares them as SQLite compares *)
(* BLOBs; the direct-parse path tests membership with the netmask, as the  *)
(* ipaddress module does.                                                  *)
(***************************************************************************)
EXTENDS Bags, FiniteSets, Integers, Naturals, Sequences, TLC

\* ---------------------------------------------------------------- bounds
V4Bytes == 2
V6Bytes == 3
BitsPerByte == 1
MaxClock == 3
MaxRmFails == 1
MaxNow == 2
MaxThreshold == 1
MaxLineLen == 4

\* ------------------------------------------------------- address algebra
RECURSIVE Pow2(_)
Pow2(k) == IF k = 0 THEN 1 ELSE 2 * Pow2(k - 1)

AddrBytes(ver) == IF ver = 6 THEN V6Bytes ELSE V4Bytes
AddrBits(ver) == AddrBytes(ver) * BitsPerByte
ByteBase == Pow2(BitsPerByte)

Addr(ver, n) == [ver |-> ver, n |-> n]
AllAddrs == {Addr(4, n) : n \in 0..(Pow2(AddrBits(4)) - 1)}
            \cup {Addr(6, n) : n \in 0..(Pow2(AddrBits(6)) - 1)}

\* ipaddress: .packed, the big-endian bytes of the address
RECURSIVE ToBytes(_, _)
ToBytes(n, len) ==
    IF len = 0 THEN << >>
    ELSE Append(ToBytes(n \div ByteBase, len - 1), n % ByteBase)

_ip_to_bytes(ip_obj) == ToBytes(ip_obj.n, AddrBytes(ip_obj.ver))

\* ipaddress.ip_network(token, strict=False): host bits are masked off
\* (a token without a prefix is given the full prefix length of its family)
HostSize(ver, plen) == Pow2(AddrBits(ver) - plen)
\* variant: the host bits of the token are kept
ip_network_keeps_host_bits(ver, n, plen) ==
    [ver |-> ver, n |-> n, plen |-> plen]

ip_network(ver, n, plen) ==
    [ver |-> ver, n |-> n - (n % HostSize(ver, plen)), plen |-> plen]

network_address(net) == Addr(net.ver, net.n)
broadcast_address(net) == Addr(net.ver, net.n + HostSize(net.ver, net.plen) - 1)

\* variant: the end bound is the network address instead of the last address
_network_bounds_bytes_first_only(net) ==
    << _ip_to_bytes(network_address(net)), _ip_to_bytes(network_address(net)) >>

\* variant: the two bounds are returned in the opposite order
_network_bounds_bytes_swapped(net) ==
    << _ip_to_bytes(broadcast_address(net)), _ip_to_bytes(network_address(net)) >>

_network_bounds_bytes(net) ==
    << _ip_to_bytes(network_address(net)), _ip_to_bytes(broadcast_address(net)) >>

\* ipaddress: `ip_obj in net` (same version and ip & netmask = network)
InNet(ip_obj, net) ==
    /\ ip_obj.ver = net.ver
    /\ ip_obj.n - (ip_obj.n % HostSize(net.ver, net.plen)) = net.n

\* SQLite BLOB comparison: memcmp over the common prefix, then the length
RECURSIVE BlobLE(_, _)
BlobLE(a, b) ==
    IF a = << >> THEN TRUE
    ELSE IF b = << >> THEN FALSE
    ELSE IF Head(a) < Head(b) THEN TRUE
    ELSE IF Head(a) > Head(b) THEN FALSE
    ELSE BlobLE(Tail(a), Tail(b))

\* ------------------------------------------------------------ feed text
\* A feed line after comment stripping and tokenising: a single host, a
\* CIDR (host bits possibly set), a token ipaddress rejects (text that is
\* no address, an octet out of range) or nothing (an empty line, a line that
\* is a comment only).
Host(ver, n) == [kind |-> "host", ver |-> ver, n |-> n, plen |-> 0]
Cidr(ver, n, plen) == [kind |-> "cidr", ver |-> ver, n |-> n, plen |-> plen]
Junk == [kind |-> "junk", ver |-> 0, n |-> 0, plen |-> 0]
Blank == [kind |-> "blank", ver |-> 0, n |-> 0, plen |-> 0]

\* The feed texts the environment writes.
FileTexts ==
    << << Host(4, 1) >>,
       << Junk, Cidr(4, 3, 1) >>,
       << Cidr(6, 5, 1), Blank, Junk, Host(4, 1) >> >>
Texts == 1..Len(FileTexts)

\* variant: a token without a prefix is given the prefix length of IPv4
ParseLine_always_v4_prefix(tok) ==
    IF tok.kind = "blank" THEN << >>
    ELSE IF tok.kind = "cidr" THEN << ip_network(tok.ver, tok.n, tok.plen) >>
    ELSE IF tok.kind = "host" THEN << ip_network(tok.ver, tok.n, AddrBits(4)) >>
    ELSE << >>

\* _load_networks_from_file, lines 347-379: a line without a token is
\* skipped, a token yields one network when ipaddress accepts it
ParseLine(tok) ==
    IF tok.kind = "blank" THEN << >>
    ELSE IF tok.kind = "cidr" THEN << ip_network(tok.ver, tok.n, tok.plen) >>
    ELSE IF tok.kind = "host" THEN << ip_network(tok.ver, tok.n, AddrBits(tok.ver)) >>
    ELSE << >>

\* variant: the first line that yields no network ends the parsing
RECURSIVE ParseLines_stop_at_malformed(_)
ParseLines_stop_at_malformed(lines) ==
    IF lines = << >> \/ ParseLine(Head(lines)) = << >> THEN << >>
    ELSE ParseLine(Head(lines)) \o ParseLines_stop_at_malformed(Tail(lines))

RECURSIVE ParseLines(_)
ParseLines(lines) ==
    IF lines = << >> THEN << >>
    ELSE ParseLine(Head(lines)) \o ParseLines(Tail(lines))


\* A raw feed line, before comment stripping and tokenising, is a sequence
\* of pieces: an address or a CIDR, a word of letters that are no hexadecimal
\* digits, a quote character, a run of white space, or one of the comment
\* markers '#', ';' and '//'.
Piece(kind) == [kind |-> kind, ver |-> 0, n |-> 0, plen |-> 0]
Markers == << "#", ";", "//" >>
Pieces ==
    {Host(4, 1), Host(6, 6), Cidr(6, 5, 1), Piece("word"), Piece("quote"),
     Piece("space")}
    \cup {Piece(Markers[i]) : i \in DOMAIN Markers}
RawLines == UNION {[1..len -> Pieces] : len \in 0..MaxLineLen}

\* raw.split(sep, 1)[0]: the text before the first occurrence of sep
RECURSIVE Before(_, _)
Before(raw, sep) ==
    IF raw = << >> \/ Head(raw).kind = sep THEN << >>
    ELSE << Head(raw) >> \o Before(Tail(raw), sep)

\* variant: only '#' starts a comment
StripComments_hash_only(raw) == Before(raw, Markers[1])

\* lines 351-353: for each marker in turn, cut the line at its first
\* occurrence
StripComments(raw) == Before(Before(Before(raw, Markers[1]), Markers[2]), Markers[3])

\* raw.split(): the runs of pieces between white space
RECURSIVE split(_)
split(raw) ==
    IF raw = << >> THEN << >>
    ELSE IF Head(raw).kind = "space" THEN split(Tail(raw))
    ELSE LET part == Before(raw, "space")
         IN << part >> \o split(SubSeq(raw, Len(part) + 1, Len(raw)))

\* p.strip('"\''): the quote characters at both ends are dropped
RECURSIVE lstrip(_)
lstrip(p) == IF p # << >> /\ Head(p).kind = "quote" THEN lstrip(Tail(p)) ELSE p
RECURSIVE rstrip(_)
rstrip(p) ==
    IF p # << >> /\ p[Len(p)].kind = "quote" THEN rstrip(SubSeq(p, 1, Len(p) - 1)) ELSE p
strip(p) == rstrip(lstrip(p))

\* lines 358-364: the first part that is not empty once stripped
RECURSIVE FirstToken(_)
FirstToken(parts) ==
    IF parts = << >> THEN << >>
    ELSE IF strip(Head(parts)) # << >> THEN strip(Head(parts))
    ELSE FirstToken(Tail(parts))

\* what ipaddress makes of the token: an address or a CIDR on its own is
\* one, anything glued to it makes text ipaddress rejects
Token(token) ==
    IF token = << >> THEN Blank
    ELSE IF Len(token) = 1 /\ token[1].kind \in {"host", "cidr"} THEN token[1]
    ELSE Junk

\* _load_networks_from_file, lines 346-379, on one raw line
LoadLine(raw) == ParseLine(Token(FirstToken(split(StripComments(raw)))))

\* _load_networks_from_file: the networks of a file text, in line order
ParseText(t) == ParseLines(FileTexts[t])

\* The addresses lookup is called with: for every network of every feed
\* text its first and last address, the addresses next to them on both
\* sides, and the lowest and highest address of each family.
AllNets == UNION {{ParseText(t)[i] : i \in 1..Len(ParseText(t))} : t \in Texts}
QueryAddrs ==
    {a \in AllAddrs :
        \/ a.n \in {0, Pow2(AddrBits(a.ver)) - 1}
        \/ \E net \in AllNets :
              /\ net.ver = a.ver
              /\ \E d \in {0 - 1, 0, 1} :
                    a.n + d \in {net.n, net.n + HostSize(net.ver, net.plen) - 1}}

\* ------------------------------------------------------------ the world
Feeds == {"F", "G"}
\* iteration order of the BLACKLIST_FEEDS dict
FeedOrder == << "F", "G" >>
Procs == {1, 2}

\* A feed source is a URL or a local path; every feed also has its file
\* DATA_DIR/<name>.txt.
UrlOf(name) == << "url", name >>
LocalOf(name) == << "local", name >>
DataFile(name) == << "data", name >>
Paths == {DataFile(f) : f \in Feeds} \cup {LocalOf("G")}

NoFile == [text |-> 0, mtime |-> 0, readable |-> FALSE]
NoDb == [gen |-> 0, tables |-> FALSE, rows |-> EmptyBag, meta |-> << >>]
NoTxn == [active |-> FALSE, del |-> {}, ins |-> EmptyBag]

\* The directories set_data_dir is called with.  The files under DATA_DIR
\* are in files and db, the content of the file METADATA_FILE is in fetched;
\* elsewhere holds the files of the other directory.
Dirs == {"A", "B"}
MetaPath(dir) == << dir, ".cache_metadata.json" >>
EmptyDir == [db |-> NoDb, files |-> [f \in Feeds |-> NoFile], fetched |-> << >>]

VARIABLES
    DATA_DIR,         \* module global set by set_data_dir
    METADATA_FILE,    \* module global set by set_data_dir
    BLACKLIST_FEEDS,  \* module global: feed name -> source
    _USE_CACHE,       \* module global toggled by set_use_cache
    files,            \* file system: path -> [text, mtime, readable] or NoFile;
                      \* DataFile(name) is the path DATA_DIR/<name>.txt
    clock,            \* number of feed-file writes so far (the mtime stamp)
    fetched,          \* METADATA_FILE: feed name -> time of the last fetch
    now,              \* the wall clock (datetime.utcnow), in minutes
    db,               \* the file DATA_DIR/networks.db, NoDb when missing
    elsewhere,        \* the directory of Dirs that is not DATA_DIR: its
                      \* networks.db (db), its <name>.txt files (files); and
                      \* the content of the .cache_metadata.json that is not
                      \* METADATA_FILE (fetched)
    storeFault,       \* "none", "down" (cannot be opened) or "io" (writes fail)
    rmFails,          \* removals of an open store file that failed so far
    caller            \* per caller: position and locals of the running call; the
                      \* fields via (which path answered), rebuilt (how the
                      \* rebuild of this call ended), removed ("failed" when
                      \* os.remove of the store file failed) and db0 (the store when
                      \* a rebuild_cache or update_feed call started) record
                      \* the history of the call

vars == << DATA_DIR, METADATA_FILE, BLACKLIST_FEEDS, _USE_CACHE, files, clock, fetched, now,
          db, elsewhere, storeFault, rmFails, caller >>

Idle ==
    [pc |-> "idle", op |-> "none", ip |-> "none", feed_name |-> "none",
     feed_files |-> << >>, feed_mtimes |-> << >>, conn |-> 0, chk_conn |-> 0,
     txn |-> NoTxn, idx |-> 0, data_text |-> 0, mtime |-> 0, threshold_minutes |-> 0,
     hits |-> << >>, via |-> "none", result |-> "none", rebuilt |-> "no",
     removed |-> "no", db0 |-> NoDb]

Exists(path) == files[path] # NoFile

\* os.path.getmtime inside try/except: 0 when the file is missing
GetMtime(path) == IF Exists(path) THEN files[path].mtime ELSE 0

\* lines 399-403 and 178-182: an existing local path is used as is, any
\* other source resolves to DATA_DIR/<name>.txt
ResolvePath(name) ==
    LET feed_val == BLACKLIST_FEEDS[name]
    IN IF feed_val[1] = "local" /\ Exists(feed_val) THEN feed_val ELSE DataFile(name)

Configured == SelectSeq(FeedOrder, LAMBDA f : f \in DOMAIN BLACKLIST_FEEDS)

\* lines 396-408 (and 175-187): name -> path and name -> mtime
ResolveFiles == [f \in DOMAIN BLACKLIST_FEEDS |-> ResolvePath(f)]
ResolveMtimes == [f \in DOMAIN BLACKLIST_FEEDS |-> GetMtime(ResolvePath(f))]

\* json.dumps of a name -> mtime dict: the key/value pairs as text
JsonDumps(d) ==
    LET keys == SelectSeq(FeedOrder, LAMBDA f : f \in DOMAIN d)
    IN [i \in 1..Len(keys) |-> << keys[i], d[keys[i]] >>]

\* json.loads: the dict of the pairs
JsonLoads(s) ==
    [k \in {s[i][1] : i \in 1..Len(s)} |->
        LET i == CHOOSE j \in 1..Len(s) : s[j][1] = k /\ \A l \in (j+1)..Len(s) : s[l][1] # k
        IN s[i][2]]

\* lines 421-428 and 320-324: the stored feed_mtimes, {} when absent
StoredMtimes(meta) ==
    IF "feed_mtimes" \in DOMAIN meta THEN JsonLoads(meta["feed_mtimes"]) ELSE << >>

\* ------------------------------------------------------- the range store
\* the row _rebuild_cache and _update_db_for_feed insert for one network
Row(name, net) ==
    LET b == _network_bounds_bytes(net)
    IN [feed |-> name, cidr |-> net, start |-> b[1], end |-> b[2],
        version |-> IF net.ver = 6 THEN 6 ELSE 4]

RECURSIVE RowsOf(_, _)
RowsOf(name, nets) ==
    IF nets = << >> THEN EmptyBag
    ELSE SetToBag({Row(name, Head(nets))}) (+) RowsOf(name, Tail(nets))

\* variant: the query does not test the version column
StoreSelect_any_version(rows, ip_obj) ==
    LET ip_packed == _ip_to_bytes(ip_obj)
    IN {r.feed : r \in {x \in BagToSet(rows) :
            BlobLE(x.start, ip_packed) /\ BlobLE(ip_packed, x.end)}}

\* variant: the query tests start <= ip only
StoreSelect_no_end(rows, ip_obj) ==
    LET version == IF ip_obj.ver = 6 THEN 6 ELSE 4
        ip_packed == _ip_to_bytes(ip_obj)
    IN {r.feed : r \in {x \in BagToSet(rows) :
            x.version = version /\ BlobLE(x.start, ip_packed)}}

\* line 449: SELECT DISTINCT feed ... WHERE version=? AND start<=? AND end>=?
StoreSelect(rows, ip_obj) ==
    LET version == IF ip_obj.ver = 6 THEN 6 ELSE 4
        ip_packed == _ip_to_bytes(ip_obj)
    IN {r.feed : r \in {x \in BagToSet(rows) :
            /\ x.version = version
            /\ BlobLE(x.start, ip_packed)
            /\ BlobLE(ip_packed, x.end)}}

\* variant: the DELETE has no WHERE clause
DeleteRows_every_feed(rows, dels) ==
    IF dels = {} THEN rows ELSE EmptyBag

\* line 309: DELETE FROM networks WHERE feed=?
DeleteRows(rows, dels) ==
    LET keep == {r \in BagToSet(rows) : r.feed \notin dels}
    IN [r \in keep |-> rows[r]]

\* variant: the DELETE is committed at once
ExecDelete_autocommit(rows, txn, name) ==
    [rows |-> DeleteRows(rows, {name}),
     txn |-> [active |-> TRUE, del |-> txn.del \cup {name}, ins |-> txn.ins]]

\* line 309 inside the implicit transaction of the connection: the DELETE
\* is pending until the commit, the table other connections read is as before
ExecDelete(rows, txn, name) ==
    [rows |-> rows, txn |-> [active |-> TRUE, del |-> txn.del \cup {name}, ins |-> txn.ins]]

\* conn.commit(): the pending deletes and inserts become the table
CommitRows(rows, txn) == DeleteRows(rows, txn.del) (+) txn.ins


\* -------------------------------------------------------------- SQLite
\* a connection is open on the current store file
Held(gen) == \E q \in Procs : caller[q].conn = gen \/ caller[q].chk_conn = gen

\* sqlite3.connect creates the file when it is missing
FreshGen == CHOOSE g \in 1..(2 * Cardinality(Procs) + 1) : g # db.gen /\ ~Held(g)
Connect == IF db = NoDb THEN [NoDb EXCEPT !.gen = FreshGen] ELSE db

\* another connection holds the write lock of the store file
OtherWriter(p) ==
    \E q \in Procs \ {p} : caller[q].txn.active /\ caller[q].conn = db.gen

\* What a write statement of caller p meets: "ok" on the store file, "busy"
\* while another connection holds the write lock, "orphan" when the file was
\* unlinked and not re-created (the write lands in the unlinked file),
\* "raise" when writes fail or the file at the path was replaced.
WriteStatus(p) ==
    IF storeFault # "none" THEN "raise"
    ELSE IF db # NoDb /\ caller[p].conn = db.gen
         THEN IF OtherWriter(p) THEN "busy" ELSE "ok"
    ELSE IF db = NoDb THEN "orphan"
    ELSE "raise"

\* _init_db on the connected file d: CREATE TABLE IF NOT EXISTS + commit
InitStatus(p, d) ==
    IF d.tables THEN "ok"
    ELSE IF storeFault # "none" THEN "raise"
    ELSE IF db # NoDb /\ OtherWriter(p) THEN "busy"
    ELSE "ok"

\* variant: creating the tables also records the current fingerprints
_init_db_records_fingerprints(d) ==
    [d EXCEPT !.tables = TRUE,
              !.meta = [k \in {"feed_mtimes"} |->
                          [i \in 1..Len(FeedOrder) |-> << FeedOrder[i], clock >>]]]

_init_db(d) == [d EXCEPT !.tables = TRUE]

\* _write_meta_db: REPLACE INTO meta for every key of the dict
_write_meta_db(meta, new) ==
    [k \in (DOMAIN meta) \cup (DOMAIN new) |-> IF k \in DOMAIN new THEN new[k] ELSE meta[k]]

\* ------------------------------------------------------------- helpers
Set(p, rec) == caller' = [caller EXCEPT ![p] = rec]

Readable(path) == ~Exists(path) \/ files[path].readable

\* _load_networks_from_file on a readable or missing file
_load_networks_from_file(path) ==
    IF Exists(path) THEN ParseText(files[path].text) ELSE << >>

FeedsOf(feed_files) == SelectSeq(FeedOrder, LAMBDA f : f \in DOMAIN feed_files)

\* variant: a fetch exactly threshold minutes old is due already
needs_refresh_at_threshold(feed_name, threshold_minutes) ==
    IF feed_name \notin DOMAIN fetched THEN TRUE
    ELSE (now - fetched[feed_name]) >= threshold_minutes

\* lines 220-226
needs_refresh(feed_name, threshold_minutes) ==
    IF feed_name \notin DOMAIN fetched THEN TRUE
    ELSE (now - fetched[feed_name]) > threshold_minutes

\* variant: a stale store is rebuilt only when some feed is due for a fetch
RebuildNeeded_when_due(stored_mtimes, feed_mtimes) ==
    /\ stored_mtimes # feed_mtimes
    /\ \E f \in DOMAIN feed_mtimes : needs_refresh(f, MaxThreshold)

\* variant: only the feed names are compared, not their mtimes
RebuildNeeded_names_only(stored_mtimes, feed_mtimes) ==
    DOMAIN stored_mtimes # DOMAIN feed_mtimes

\* variant: stored names that are no longer configured are ignored
RebuildNeeded_configured_only(stored_mtimes, feed_mtimes) ==
    \E f \in DOMAIN feed_mtimes :
        f \notin DOMAIN stored_mtimes \/ feed_mtimes[f] # stored_mtimes[f]

\* variant: a rebuild only when a configured feed is new or its file newer
RebuildNeeded_newer_only(stored_mtimes, feed_mtimes) ==
    \E f \in DOMAIN feed_mtimes :
        f \notin DOMAIN stored_mtimes \/ feed_mtimes[f] > stored_mtimes[f]

\* lines 429-430: the staleness test of lookup
RebuildNeeded(stored_mtimes, feed_mtimes) == stored_mtimes # feed_mtimes

\* lines 460-466: the direct-parse answer for one address
DirectHits(feed_files, ip_obj) ==
    {name \in DOMAIN feed_files :
        LET nets == _load_networks_from_file(feed_files[name])
        IN \E i \in 1..Len(nets) : InNet(ip_obj, nets[i])}

\* an exception leaves _rebuild_cache: the connection is dropped, the open
\* transaction rolled back; lookup swallows it, rebuild_cache propagates it
RebuildRaise(p) ==
    LET c == caller[p]
        r == [c EXCEPT !.conn = 0, !.txn = NoTxn, !.idx = 0, !.rebuilt = "failed"]
    IN IF c.op = "lookup" THEN [r EXCEPT !.pc = "query"]
       ELSE [r EXCEPT !.pc = "done", !.result = "raised"]

\* update_feed returns: to its caller, or to the loop of ensure_feeds
\* (line 336), which goes on with the next feed
UpdateReturn(rec) ==
    IF rec.op = "ensure_feeds" THEN [rec EXCEPT !.pc = "ensure", !.idx = @ + 1, !.result = "none"]
    ELSE rec

\* variant: an exception inside _update_db_for_feed fails the update
UpdateRaise_fails_update(p) ==
    [caller[p] EXCEPT !.conn = 0, !.txn = NoTxn, !.pc = "done",
                      !.result = "False", !.rebuilt = "failed"]

\* an exception inside _update_db_for_feed is swallowed by update_feed
UpdateRaise(p) ==
    UpdateReturn([caller[p] EXCEPT !.conn = 0, !.txn = NoTxn, !.pc = "done",
                                   !.result = "True", !.rebuilt = "failed"])


\* --------------------------------------------------- ip_in_any_blacklist
\* The call is modelled for every address of QueryAddrs at once: hits maps
\* each address to the list the call returns for it.  The argument is not read
\* between line 394 and the query, so the steps before are the same for
\* every valid address.

\* lines 390-408 with a valid address: resolve the feed files and stat them
LookupCall(p) ==
    /\ caller[p].pc = "idle"
    /\ Set(p, [Idle EXCEPT !.pc = "check", !.op = "lookup", !.ip = "valid",
                           !.feed_files = ResolveFiles, !.feed_mtimes = ResolveMtimes])
    /\ UNCHANGED << BLACKLIST_FEEDS, _USE_CACHE, files, clock, fetched, now, db, storeFault, rmFails, DATA_DIR, METADATA_FILE, elsewhere >>

\* variant: an unparseable address is rejected after the store check only
LookupInvalid_after_check(p) ==
    /\ caller[p].pc = "idle"
    /\ Set(p, [Idle EXCEPT !.pc = "check", !.op = "lookup", !.ip = "invalid",
                           !.feed_files = ResolveFiles, !.feed_mtimes = ResolveMtimes])
    /\ UNCHANGED << BLACKLIST_FEEDS, _USE_CACHE, files, clock, fetched, now, db, storeFault, rmFails, DATA_DIR, METADATA_FILE, elsewhere >>

\* lines 390-394 with an unparseable address: return [] at once
LookupInvalid(p) ==
    /\ caller[p].pc = "idle"
    /\ Set(p, [Idle EXCEPT !.pc = "done", !.op = "lookup", !.ip = "invalid",
                           !.hits = [a \in {"invalid"} |-> {}], !.result = "hits"])
    /\ UNCHANGED << BLACKLIST_FEEDS, _USE_CACHE, files, clock, fetched, now, db, storeFault, rmFails, DATA_DIR, METADATA_FILE, elsewhere >>

\* variant: the store is consulted whatever _USE_CACHE is
LookupCheck_ignores_flag(p) ==
    LET c == caller[p] IN
    /\ c.pc = "check"
    /\ IF db = NoDb \/ storeFault = "down" THEN Set(p, [c EXCEPT !.pc = "rm"])
       ELSE IF ~db.tables
            THEN Set(p, [c EXCEPT !.pc = "rm", !.chk_conn = db.gen])
       ELSE IF RebuildNeeded(StoredMtimes(db.meta), c.feed_mtimes)
            THEN Set(p, [c EXCEPT !.pc = "rm"])
       ELSE Set(p, [c EXCEPT !.pc = "query"])
    /\ UNCHANGED << BLACKLIST_FEEDS, _USE_CACHE, files, clock, fetched, now, db, storeFault, rmFails, DATA_DIR, METADATA_FILE, elsewhere >>

\* lines 411-433: is a rebuild needed?
LookupCheck(p) ==
    LET c == caller[p] IN
    /\ c.pc = "check"
    /\ IF ~_USE_CACHE THEN Set(p, [c EXCEPT !.pc = "parse"])
       ELSE IF db = NoDb \/ storeFault = "down" THEN Set(p, [c EXCEPT !.pc = "rm"])
       ELSE IF ~db.tables
            \* _read_meta_db raises; conn.close() on line 431 is skipped
            THEN Set(p, [c EXCEPT !.pc = "rm", !.chk_conn = db.gen])
       ELSE IF RebuildNeeded(StoredMtimes(db.meta), c.feed_mtimes)
            THEN Set(p, [c EXCEPT !.pc = "rm"])
       ELSE Set(p, [c EXCEPT !.pc = "query"])
    /\ UNCHANGED << BLACKLIST_FEEDS, _USE_CACHE, files, clock, fetched, now, db, storeFault, rmFails, DATA_DIR, METADATA_FILE, elsewhere >>

\* lines 442-458: query the store, fall back to parsing when that raises
LookupQuery(p) ==
    LET c == caller[p] IN
    /\ c.pc = "query"
    /\ IF storeFault = "down"
       THEN Set(p, [c EXCEPT !.pc = "parse"]) /\ UNCHANGED db
       ELSE IF ~Connect.tables
       THEN Set(p, [c EXCEPT !.pc = "parse"]) /\ db' = Connect
       ELSE /\ Set(p, [c EXCEPT !.pc = "done", !.result = "hits", !.via = "store",
                                !.chk_conn = 0,
                                !.hits = [a \in QueryAddrs |-> StoreSelect(db.rows, a)]])
            /\ UNCHANGED db
    /\ UNCHANGED << BLACKLIST_FEEDS, _USE_CACHE, files, clock, fetched, now, storeFault, rmFails, DATA_DIR, METADATA_FILE, elsewhere >>

\* lines 460-468: parse every feed file; an undecodable file raises
LookupParse(p) ==
    LET c == caller[p] IN
    /\ c.pc = "parse"
    /\ IF \A f \in DOMAIN c.feed_files : Readable(c.feed_files[f])
       THEN Set(p, [c EXCEPT !.pc = "done", !.result = "hits", !.via = "parse",
                             !.chk_conn = 0,
                             !.hits = [a \in QueryAddrs |-> DirectHits(c.feed_files, a)]])
       ELSE Set(p, [c EXCEPT !.pc = "done", !.result = "raised", !.chk_conn = 0])
    /\ UNCHANGED << BLACKLIST_FEEDS, _USE_CACHE, files, clock, fetched, now, db, storeFault, rmFails, DATA_DIR, METADATA_FILE, elsewhere >>

\* --------------------------------------------------------- rebuild_cache
\* variant: only the feeds whose stored mtime differs are passed on
RebuildCacheCall_changed_feeds_only(p) ==
    LET stored == StoredMtimes(db.meta)
        changed == {f \in DOMAIN BLACKLIST_FEEDS :
                       f \notin DOMAIN stored \/ stored[f] # ResolveMtimes[f]}
    IN
    /\ caller[p].pc = "idle"
    /\ Set(p, [Idle EXCEPT !.pc = "rm", !.op = "rebuild_cache", !.db0 = db,
                           !.feed_files = [f \in changed |-> ResolveFiles[f]],
                           !.feed_mtimes = ResolveMtimes])
    /\ UNCHANGED << BLACKLIST_FEEDS, _USE_CACHE, files, clock, fetched, now, db, storeFault, rmFails, DATA_DIR, METADATA_FILE, elsewhere >>

\* variant: the rebuild records a fetch for every configured feed
RebuildCacheCall_records_fetch(p) ==
    /\ caller[p].pc = "idle"
    /\ Set(p, [Idle EXCEPT !.pc = "rm", !.op = "rebuild_cache", !.db0 = db,
                           !.feed_files = ResolveFiles, !.feed_mtimes = ResolveMtimes])
    /\ fetched' = [k \in (DOMAIN fetched) \cup (DOMAIN BLACKLIST_FEEDS) |->
                       IF k \in DOMAIN BLACKLIST_FEEDS THEN now ELSE fetched[k]]
    /\ UNCHANGED << BLACKLIST_FEEDS, _USE_CACHE, files, clock, now, db, storeFault, rmFails, DATA_DIR, METADATA_FILE, elsewhere >>

\* variant: every feed is taken from DATA_DIR/<name>.txt
RebuildCacheCall_data_dir_only(p) ==
    /\ caller[p].pc = "idle"
    /\ Set(p, [Idle EXCEPT !.pc = "rm", !.op = "rebuild_cache", !.db0 = db,
                           !.feed_files = [f \in DOMAIN BLACKLIST_FEEDS |-> DataFile(f)],
                           !.feed_mtimes = [f \in DOMAIN BLACKLIST_FEEDS |-> GetMtime(DataFile(f))]])
    /\ UNCHANGED << BLACKLIST_FEEDS, _USE_CACHE, files, clock, fetched, now, db, storeFault, rmFails, DATA_DIR, METADATA_FILE, elsewhere >>

\* lines 169-189: resolve and stat the feed files, then _rebuild_cache
RebuildCacheCall(p) ==
    /\ caller[p].pc = "idle"
    /\ Set(p, [Idle EXCEPT !.pc = "rm", !.op = "rebuild_cache", !.db0 = db,
                           !.feed_files = ResolveFiles, !.feed_mtimes = ResolveMtimes])
    /\ UNCHANGED << BLACKLIST_FEEDS, _USE_CACHE, files, clock, fetched, now, db, storeFault, rmFails, DATA_DIR, METADATA_FILE, elsewhere >>

\* --------------------------------------------------------- _rebuild_cache
\* lines 141-147: remove the old store file; a failure is swallowed.  The
\* removal fails when the store cannot be reached, and may fail while a
\* connection is open on the file (it does where open files cannot be
\* deleted).
RemoveOutcomes ==
    IF storeFault = "down" THEN {FALSE}
    ELSE IF Held(db.gen) /\ rmFails < MaxRmFails THEN {TRUE, FALSE}
    ELSE {TRUE}

RebuildRemove(p) ==
    LET c == caller[p] IN
    /\ c.pc = "rm"
    /\ IF db = NoDb
       THEN UNCHANGED << db, rmFails >> /\ Set(p, [c EXCEPT !.pc = "init"])
       ELSE \E removed \in RemoveOutcomes :
               /\ db' = IF removed THEN NoDb ELSE db
               /\ rmFails' = IF removed \/ storeFault = "down" THEN rmFails ELSE rmFails + 1
               /\ Set(p, [c EXCEPT !.pc = "init",
                                   !.removed = IF removed THEN c.removed ELSE "failed"])
    /\ UNCHANGED << BLACKLIST_FEEDS, _USE_CACHE, files, clock, fetched, now, storeFault, DATA_DIR, METADATA_FILE, elsewhere >>

\* lines 149-151: connect and _init_db
RebuildInit(p) ==
    LET c == caller[p] IN
    /\ c.pc = "init"
    /\ IF storeFault = "down" THEN Set(p, RebuildRaise(p)) /\ UNCHANGED db
       ELSE /\ InitStatus(p, Connect) # "busy"
            /\ IF InitStatus(p, Connect) = "raise"
               THEN Set(p, RebuildRaise(p)) /\ db' = Connect
               ELSE /\ db' = _init_db(Connect)
                    /\ Set(p, [c EXCEPT !.conn = Connect.gen, !.idx = 1,
                                 !.pc = IF FeedsOf(c.feed_files) = << >> THEN "commit" ELSE "ins"])
    /\ UNCHANGED << BLACKLIST_FEEDS, _USE_CACHE, files, clock, fetched, now, storeFault, rmFails, DATA_DIR, METADATA_FILE, elsewhere >>

\* lines 154-160, one feed: parse the file and INSERT its networks
RebuildInsert(p) ==
    LET c == caller[p]
        order == FeedsOf(c.feed_files)
        name == order[c.idx]
        path == c.feed_files[name]
        nets == _load_networks_from_file(path)
        next == [c EXCEPT !.idx = c.idx + 1,
                          !.pc = IF c.idx = Len(order) THEN "commit" ELSE "ins"]
    IN
    /\ c.pc = "ins"
    /\ IF ~Readable(path) THEN Set(p, RebuildRaise(p))
       ELSE IF nets = << >> THEN Set(p, next)
       ELSE /\ WriteStatus(p) # "busy"
            /\ IF WriteStatus(p) = "raise" THEN Set(p, RebuildRaise(p))
               ELSE Set(p, [next EXCEPT !.txn = [active |-> TRUE, del |-> c.txn.del,
                                                 ins |-> c.txn.ins (+) RowsOf(name, nets)]])
    /\ UNCHANGED << BLACKLIST_FEEDS, _USE_CACHE, files, clock, fetched, now, db, storeFault, rmFails, DATA_DIR, METADATA_FILE, elsewhere >>

\* lines 162-166: write the meta rows and commit
RebuildCommit(p) ==
    LET c == caller[p]
        meta == [k \in {"feed_mtimes", "cache_version"} |->
                    IF k = "feed_mtimes" THEN JsonDumps(c.feed_mtimes) ELSE "1"]
        after == [c EXCEPT !.conn = 0, !.txn = NoTxn, !.idx = 0, !.rebuilt = "ok"]
    IN
    /\ c.pc = "commit"
    /\ WriteStatus(p) # "busy"
    /\ IF WriteStatus(p) = "raise" THEN Set(p, RebuildRaise(p)) /\ UNCHANGED db
       ELSE /\ IF WriteStatus(p) = "ok"
               THEN db' = [db EXCEPT !.rows = CommitRows(db.rows, c.txn),
                                     !.meta = _write_meta_db(db.meta, meta)]
               ELSE UNCHANGED db
            /\ IF c.op = "lookup" THEN Set(p, [after EXCEPT !.pc = "query"])
               ELSE Set(p, [after EXCEPT !.pc = "done", !.result = "None"])
    /\ UNCHANGED << BLACKLIST_FEEDS, _USE_CACHE, files, clock, fetched, now, storeFault, rmFails, DATA_DIR, METADATA_FILE, elsewhere >>


\* ------------------------------------------------------------ update_feed
\* lines 229-273: obtain the feed text.  A URL answers with some text; a
\* local path is read when it exists.
UpdateFetch(p, feed_name) ==
    LET url == BLACKLIST_FEEDS[feed_name] IN
    /\ caller[p].pc = "idle"
    /\ IF url[1] = "url"
       THEN \E t \in Texts :
               Set(p, [Idle EXCEPT !.pc = "save", !.op = "update_feed", !.db0 = db,
                                   !.feed_name = feed_name, !.data_text = t])
       ELSE /\ Exists(url) /\ files[url].readable
            /\ Set(p, [Idle EXCEPT !.pc = "save", !.op = "update_feed", !.db0 = db,
                                   !.feed_name = feed_name, !.data_text = files[url].text])
    /\ UNCHANGED << BLACKLIST_FEEDS, _USE_CACHE, files, clock, fetched, now, db, storeFault, rmFails, DATA_DIR, METADATA_FILE, elsewhere >>

\* lines 229-273 and 294-296: the fetch raises (HTTP error, missing or
\* undecodable local file) and update_feed returns False
UpdateFetchFail(p, feed_name) ==
    LET url == BLACKLIST_FEEDS[feed_name] IN
    /\ caller[p].pc = "idle"
    /\ url[1] = "local" => ~(Exists(url) /\ files[url].readable)
    /\ Set(p, [Idle EXCEPT !.pc = "done", !.op = "update_feed",
                           !.feed_name = feed_name, !.result = "False"])
    /\ UNCHANGED << BLACKLIST_FEEDS, _USE_CACHE, files, clock, fetched, now, db, storeFault, rmFails, DATA_DIR, METADATA_FILE, elsewhere >>

\* lines 275-283: write DATA_DIR/<name>.txt and the fetch time
UpdateSave(p) ==
    LET c == caller[p] IN
    /\ c.pc = "save"
    /\ clock < MaxClock
    /\ clock' = clock + 1
    /\ files' = [files EXCEPT ![DataFile(c.feed_name)] =
                    [text |-> c.data_text, mtime |-> clock + 1, readable |-> TRUE]]
    /\ fetched' = [k \in (DOMAIN fetched) \cup {c.feed_name} |->
                       IF k = c.feed_name THEN now ELSE fetched[k]]
    /\ IF _USE_CACHE THEN Set(p, [c EXCEPT !.pc = "uconn"])
       ELSE Set(p, UpdateReturn([c EXCEPT !.pc = "done", !.result = "True"]))
    /\ UNCHANGED << BLACKLIST_FEEDS, _USE_CACHE, now, db, storeFault, rmFails, DATA_DIR, METADATA_FILE, elsewhere >>

\* lines 275-280 and 294-296: DATA_DIR/<name>.txt is written, then recording
\* the fetch time raises (METADATA_FILE holds JSON that is no object, or it
\* cannot be written) and update_feed returns False
UpdateSaveFail(p) ==
    LET c == caller[p] IN
    /\ c.pc = "save"
    /\ clock < MaxClock
    /\ clock' = clock + 1
    /\ files' = [files EXCEPT ![DataFile(c.feed_name)] =
                    [text |-> c.data_text, mtime |-> clock + 1, readable |-> TRUE]]
    /\ Set(p, UpdateReturn([c EXCEPT !.pc = "done", !.result = "False"]))
    /\ UNCHANGED << BLACKLIST_FEEDS, _USE_CACHE, fetched, now, db, storeFault, rmFails, DATA_DIR, METADATA_FILE, elsewhere >>

\* lines 285-289 and 305-307: stat the file, connect and _init_db
UpdateConnect(p) ==
    LET c == caller[p] IN
    /\ c.pc = "uconn"
    /\ IF storeFault = "down" THEN Set(p, UpdateRaise(p)) /\ UNCHANGED db
       ELSE /\ InitStatus(p, Connect) # "busy"
            /\ IF InitStatus(p, Connect) = "raise"
               THEN Set(p, UpdateRaise(p)) /\ db' = Connect
               ELSE /\ db' = _init_db(Connect)
                    /\ Set(p, [c EXCEPT !.conn = Connect.gen, !.pc = "udel",
                                        !.mtime = GetMtime(DataFile(c.feed_name))])
    /\ UNCHANGED << BLACKLIST_FEEDS, _USE_CACHE, files, clock, fetched, now, storeFault, rmFails, DATA_DIR, METADATA_FILE, elsewhere >>

\* lines 308-316: DELETE the feed's rows, parse the file, INSERT its networks
UpdateReplace(p) ==
    LET c == caller[p]
        path == DataFile(c.feed_name)
    IN
    /\ c.pc = "udel"
    /\ WriteStatus(p) # "busy"
    /\ IF WriteStatus(p) = "raise" THEN Set(p, UpdateRaise(p)) /\ UNCHANGED db
       ELSE LET x == ExecDelete(db.rows, c.txn, c.feed_name) IN
            /\ db' = IF WriteStatus(p) = "ok" THEN [db EXCEPT !.rows = x.rows] ELSE db
            /\ IF ~Readable(path) THEN Set(p, UpdateRaise(p))
               ELSE Set(p, [c EXCEPT !.pc = "ucommit",
                                     !.txn = [x.txn EXCEPT !.ins =
                                        RowsOf(c.feed_name, _load_networks_from_file(path))]])
    /\ UNCHANGED << BLACKLIST_FEEDS, _USE_CACHE, files, clock, fetched, now, storeFault, rmFails, DATA_DIR, METADATA_FILE, elsewhere >>

\* lines 318-328: merge the feed's mtime into the stored feed_mtimes, commit
UpdateCommit(p) ==
    LET c == caller[p]
        stored == StoredMtimes(db.meta)
        stored_mtimes == [k \in (DOMAIN stored) \cup {c.feed_name} |->
                            IF k = c.feed_name THEN c.mtime ELSE stored[k]]
        meta == [k \in {"feed_mtimes"} |-> JsonDumps(stored_mtimes)]
        after == [c EXCEPT !.conn = 0, !.txn = NoTxn, !.pc = "done",
                           !.result = "True", !.rebuilt = "ok"]
    IN
    /\ c.pc = "ucommit"
    /\ IF WriteStatus(p) = "raise" THEN Set(p, UpdateRaise(p)) /\ UNCHANGED db
       ELSE /\ IF WriteStatus(p) = "ok"
               THEN db' = [db EXCEPT !.rows = CommitRows(db.rows, c.txn),
                                     !.meta = _write_meta_db(db.meta, meta)]
               ELSE UNCHANGED db
            /\ Set(p, UpdateReturn(after))
    /\ UNCHANGED << BLACKLIST_FEEDS, _USE_CACHE, files, clock, fetched, now, storeFault, rmFails, DATA_DIR, METADATA_FILE, elsewhere >>

\* ------------------------------------------------------------ ensure_feeds
\* ensure_feeds(refresh_threshold_minutes) is called; hits lists the feeds
\* update_feed was called for so far
EnsureFeedsCall(p, refresh_threshold_minutes) ==
    /\ caller[p].pc = "idle"
    /\ Set(p, [Idle EXCEPT !.pc = "ensure", !.op = "ensure_feeds", !.idx = 1,
                           !.threshold_minutes = refresh_threshold_minutes])
    /\ UNCHANGED << BLACKLIST_FEEDS, _USE_CACHE, files, clock, fetched, now, db, storeFault, rmFails, DATA_DIR, METADATA_FILE, elsewhere >>

\* lines 333-338: the next feed of BLACKLIST_FEEDS.  A feed that needs no
\* refresh is passed over; for the others update_feed is called, which
\* fetches the text (lines 232-273) or fails to and returns False.
EnsureStep(p) ==
    LET c == caller[p]
        order == FeedsOf(BLACKLIST_FEEDS)
        name == order[c.idx]
        url == BLACKLIST_FEEDS[name]
        call == [c EXCEPT !.feed_name = name, !.hits = Append(@, name), !.db0 = db,
                          !.mtime = 0, !.rebuilt = "no"]
    IN
    /\ c.pc = "ensure"
    /\ IF c.idx > Len(order) THEN Set(p, [c EXCEPT !.pc = "done", !.result = "None"])
       ELSE IF ~needs_refresh(name, c.threshold_minutes) THEN Set(p, [c EXCEPT !.idx = @ + 1])
       ELSE \/ /\ url[1] = "local" => ~(Exists(url) /\ files[url].readable)
               /\ Set(p, [call EXCEPT !.idx = @ + 1])
            \/ IF url[1] = "url"
               THEN \E t \in Texts : Set(p, [call EXCEPT !.pc = "save", !.data_text = t])
               ELSE /\ Exists(url) /\ files[url].readable
                    /\ Set(p, [call EXCEPT !.pc = "save", !.data_text = files[url].text])
    /\ UNCHANGED << BLACKLIST_FEEDS, _USE_CACHE, files, clock, fetched, now, db, storeFault, rmFails, DATA_DIR, METADATA_FILE, elsewhere >>

\* ----------------------------------------------------------- needs_refresh
NeedsRefreshCall(p, feed_name, threshold_minutes) ==
    /\ caller[p].pc = "idle"
    /\ Set(p, [Idle EXCEPT !.pc = "done", !.op = "needs_refresh",
                           !.feed_name = feed_name, !.threshold_minutes = threshold_minutes,
                           !.result = IF needs_refresh(feed_name, threshold_minutes)
                                      THEN "True" ELSE "False"])
    /\ UNCHANGED << BLACKLIST_FEEDS, _USE_CACHE, files, clock, fetched, now, db, storeFault, rmFails, DATA_DIR, METADATA_FILE, elsewhere >>

\* ------------------------------------------- update_blacklists --list-feeds
\* update_blacklists.py lines 35-45: the path printed for one feed.  The
\* fallback 'data/<name>.txt' is relative to the working directory; it is the
\* file DATA_DIR/<name>.txt when the tool runs in the repository root.
ListedPath(name, at_root) ==
    LET val == BLACKLIST_FEEDS[name]
    IN IF val[1] = "local" /\ Exists(val) THEN val
       ELSE IF at_root /\ Exists(DataFile(name)) THEN DataFile(name)
       ELSE val

\* variant: the listing rebuilds the store before it returns
ListFeedsCall_rebuilds(p, at_root) ==
    /\ caller[p].pc = "idle"
    /\ Set(p, [Idle EXCEPT !.pc = "rm", !.op = "list_feeds", !.db0 = db,
                           !.feed_files = ResolveFiles, !.feed_mtimes = ResolveMtimes,
                           !.hits = [f \in DOMAIN BLACKLIST_FEEDS |-> ListedPath(f, at_root)]])
    /\ UNCHANGED << BLACKLIST_FEEDS, _USE_CACHE, files, clock, fetched, now, db, storeFault, rmFails, DATA_DIR, METADATA_FILE, elsewhere >>

\* update_blacklists.py lines 31-46: print name and path of every feed, return
ListFeedsCall(p, at_root) ==
    /\ caller[p].pc = "idle"
    /\ Set(p, [Idle EXCEPT !.pc = "done", !.op = "list_feeds", !.result = "None",
                           !.hits = [f \in DOMAIN BLACKLIST_FEEDS |-> ListedPath(f, at_root)]])
    /\ UNCHANGED << BLACKLIST_FEEDS, _USE_CACHE, files, clock, fetched, now, db, storeFault, rmFails, DATA_DIR, METADATA_FILE, elsewhere >>

\* the call returns to its caller
\* _load_networks_from_file reads one line: data_text is the line read,
\* hits the networks it yields
LoadLineCall(p, raw) ==
    /\ caller[p].pc = "idle"
    /\ Set(p, [Idle EXCEPT !.pc = "done", !.op = "_load_networks_from_file",
                           !.data_text = raw, !.hits = LoadLine(raw),
                           !.result = "nets"])
    /\ UNCHANGED << BLACKLIST_FEEDS, _USE_CACHE, files, clock, fetched, now, db, storeFault, rmFails, DATA_DIR, METADATA_FILE, elsewhere >>

Return(p) ==
    /\ caller[p].pc = "done"
    /\ Set(p, Idle)
    /\ UNCHANGED << BLACKLIST_FEEDS, _USE_CACHE, files, clock, fetched, now, db, storeFault, rmFails, DATA_DIR, METADATA_FILE, elsewhere >>

\* sqlite3's busy timeout expires while another connection holds the lock
BusyTimeout(p) ==
    LET c == caller[p] IN
    /\ c.pc \in {"ins", "commit", "udel"}
    /\ c.pc = "ins" => _load_networks_from_file(c.feed_files[FeedsOf(c.feed_files)[c.idx]]) # << >>
    /\ WriteStatus(p) = "busy"
    /\ IF c.op \in {"update_feed", "ensure_feeds"} THEN Set(p, UpdateRaise(p))
       ELSE Set(p, RebuildRaise(p))
    /\ UNCHANGED << BLACKLIST_FEEDS, _USE_CACHE, files, clock, fetched, now, db, storeFault, rmFails, DATA_DIR, METADATA_FILE, elsewhere >>

\* ---------------------------------------------------------- environment
\* set_use_cache
set_use_cache(val) ==
    /\ _USE_CACHE # val
    /\ _USE_CACHE' = val
    /\ UNCHANGED << BLACKLIST_FEEDS, files, clock, fetched, now, db, storeFault, rmFails, caller, DATA_DIR, METADATA_FILE, elsewhere >>

\* DATA_DIR and METADATA_FILE are assigned: the files under the directory
\* named now are those the operations find from here on
SetDirs(path, meta_file) ==
    /\ DATA_DIR' = path
    /\ METADATA_FILE' = meta_file
    /\ db' = IF path = DATA_DIR THEN db ELSE elsewhere.db
    /\ files' = [q \in Paths |->
                    IF path # DATA_DIR /\ q[1] = "data" THEN elsewhere.files[q[2]] ELSE files[q]]
    /\ fetched' = IF meta_file = METADATA_FILE THEN fetched ELSE elsewhere.fetched
    /\ elsewhere' =
          [db |-> IF path = DATA_DIR THEN elsewhere.db ELSE db,
           files |-> IF path = DATA_DIR THEN elsewhere.files
                     ELSE [f \in Feeds |-> files[DataFile(f)]],
           fetched |-> IF meta_file = METADATA_FILE THEN elsewhere.fetched ELSE fetched]
    /\ UNCHANGED << BLACKLIST_FEEDS, _USE_CACHE, clock, now, storeFault, rmFails, caller >>

\* variant: METADATA_FILE keeps naming the file of the former directory
set_data_dir_keeps_metadata_file(path) ==
    /\ path # DATA_DIR
    /\ SetDirs(path, METADATA_FILE)

\* lines 28-38; os.makedirs creates the directory when it is missing
set_data_dir(path) ==
    /\ path # DATA_DIR
    /\ SetDirs(path, MetaPath(path))

\* lines 102-132, returning True: the mapping read from the file replaces
\* BLACKLIST_FEEDS
set_blacklist_feeds_from_file(data) ==
    /\ BLACKLIST_FEEDS # data
    /\ BLACKLIST_FEEDS' = data
    /\ UNCHANGED << _USE_CACHE, files, clock, fetched, now, db, storeFault, rmFails, caller, DATA_DIR, METADATA_FILE, elsewhere >>

\* a minute passes
Tick ==
    /\ now < MaxNow
    /\ now' = now + 1
    /\ UNCHANGED << BLACKLIST_FEEDS, _USE_CACHE, files, clock, fetched, db, storeFault, rmFails, caller, DATA_DIR, METADATA_FILE, elsewhere >>

\* a feed file is written by its owner (manual edit, external fetcher)
WriteFeedFile(path, t) ==
    /\ clock < MaxClock
    /\ clock' = clock + 1
    /\ files' = [files EXCEPT ![path] = [text |-> t, mtime |-> clock + 1, readable |-> TRUE]]
    /\ UNCHANGED << BLACKLIST_FEEDS, _USE_CACHE, fetched, now, db, storeFault, rmFails, caller, DATA_DIR, METADATA_FILE, elsewhere >>

\* a feed file is written with bytes that do not decode as UTF-8
GarbleFeedFile(path) ==
    /\ clock < MaxClock
    /\ clock' = clock + 1
    /\ files' = [files EXCEPT ![path] = [text |-> 0, mtime |-> clock + 1, readable |-> FALSE]]
    /\ UNCHANGED << BLACKLIST_FEEDS, _USE_CACHE, fetched, now, db, storeFault, rmFails, caller, DATA_DIR, METADATA_FILE, elsewhere >>

\* the storage starts or stops failing
SetStoreFault(f) ==
    /\ storeFault # f
    /\ storeFault' = f
    /\ UNCHANGED << BLACKLIST_FEEDS, _USE_CACHE, files, clock, fetched, now, db, rmFails, caller, DATA_DIR, METADATA_FILE, elsewhere >>

\* ------------------------------------------------------- specifications
\* lines 192-199: the default mapping has URL feeds and one local path
DefaultFeeds == [f \in Feeds |-> IF f = "G" THEN LocalOf(f) ELSE UrlOf(f)]

Init ==
    /\ DATA_DIR = "A"
    /\ METADATA_FILE = MetaPath("A")
    /\ elsewhere = EmptyDir
    /\ BLACKLIST_FEEDS = DefaultFeeds
    /\ _USE_CACHE = TRUE
    /\ files = [path \in Paths |-> NoFile]
    /\ clock = 0
    /\ fetched = << >>
    /\ now = 0
    /\ db = NoDb
    /\ storeFault = "none"
    /\ rmFails = 0
    /\ caller = [p \in Procs |-> Idle]

\* a data directory in use: F was fetched before and G's local file exists,
\* both written at time c
Populated(c) ==
    /\ DATA_DIR = "A"
    /\ METADATA_FILE = MetaPath("A")
    /\ elsewhere = EmptyDir
    /\ BLACKLIST_FEEDS = DefaultFeeds
    /\ _USE_CACHE = TRUE
    /\ files = [path \in Paths |->
                  IF path = DataFile("F") THEN [text |-> 1, mtime |-> c, readable |-> TRUE]
                  ELSE IF path = LocalOf("G") THEN [text |-> 3, mtime |-> c, readable |-> TRUE]
                  ELSE NoFile]
    /\ clock = c
    /\ fetched = [f \in {"F"} |-> 0]
    /\ now = 0
    /\ db = NoDb
    /\ storeFault = "none"
    /\ rmFails = 0
    /\ caller = [p \in Procs |-> Idle]

\* two more feed-file writes can happen
InitFault == Populated(MaxClock - 2)

\* the concurrent callers start where one more feed-file write can happen
InitConc == Populated(MaxClock - 1)

AllIdle == \A p \in Procs : caller[p].pc = "idle"

\* a call starts
Call(p) ==
    \/ LookupCall(p) \/ LookupInvalid(p)
    \/ RebuildCacheCall(p)
    \/ \E f \in DOMAIN BLACKLIST_FEEDS : UpdateFetch(p, f) \/ UpdateFetchFail(p, f)
    \/ \E f \in Feeds, t \in 0..MaxThreshold : NeedsRefreshCall(p, f, t)

\* a running call takes its next step
Run(p) ==
    \/ LookupCheck(p) \/ LookupQuery(p) \/ LookupParse(p)
    \/ RebuildRemove(p) \/ RebuildInit(p) \/ RebuildInsert(p) \/ RebuildCommit(p)
    \/ UpdateSave(p) \/ UpdateConnect(p) \/ UpdateReplace(p) \/ UpdateCommit(p)
    \/ Return(p)

Env ==
    \/ \E v \in BOOLEAN : set_use_cache(v)
    \/ \E path \in Paths, t \in Texts : WriteFeedFile(path, t)

Faults ==
    \/ \E path \in Paths : GarbleFeedFile(path)
    \/ \E f \in {"none", "down", "io"} : SetStoreFault(f)

\* one caller, one call at a time, no storage or feed-file failures
NextSeq == Call(1) \/ Run(1) \/ (AllIdle /\ Env)
SpecSeq == Init /\ [][NextSeq]_vars

\* one caller; the storage and the feed files may fail between calls
NextFault == Call(1) \/ Run(1) \/ (AllIdle /\ (Env \/ Faults))
SpecFault == InitFault /\ [][NextFault]_vars

\* two callers whose calls interleave: caller 1 looks addresses up while
\* caller 2 runs any operation
NextConc ==
    \/ LookupCall(1) \/ Call(2)
    \/ \E p \in Procs : Run(p) \/ BusyTimeout(p)
SpecConc == InitConc /\ [][NextConc]_vars

\* the mappings a feeds file may hold: the default one, F alone, none
OnlyF == [f \in {"F"} |-> UrlOf(f)]
Mappings == {DefaultFeeds, OnlyF, << >>}

\* one caller; the feed mapping may be replaced between calls
NextFeeds ==
    \/ Call(1) \/ Run(1)
    \/ \E at_root \in BOOLEAN : ListFeedsCall(1, at_root)
    \/ AllIdle /\ (Env \/ \E data \in Mappings : set_blacklist_feeds_from_file(data))
SpecFeeds == InitFault /\ [][NextFeeds]_vars

\* one caller; time passes between calls
NextTime == Call(1) \/ Run(1) \/ (AllIdle /\ (Env \/ Tick))
SpecTime == InitFault /\ [][NextTime]_vars

\* one caller; the data directory may be changed between calls
NextDir ==
    \/ Call(1) \/ Run(1)
    \/ AllIdle /\ (Env \/ \E path \in Dirs : set_data_dir(path))
SpecDir == InitFault /\ [][NextDir]_vars

\* one caller, the metadata file may fail to take the fetch time
NextMeta == Call(1) \/ Run(1) \/ UpdateSaveFail(1) \/ (AllIdle /\ Env)
SpecMeta == InitFault /\ [][NextMeta]_vars

\* one caller with ensure_feeds and the passing of time
NextEnsure ==
    \/ Call(1) \/ Run(1)
    \/ \E t \in 0..MaxThreshold : EnsureFeedsCall(1, t)
    \/ EnsureStep(1)
    \/ AllIdle /\ (Env \/ Tick)
SpecEnsure == InitFault /\ [][NextEnsure]_vars

\* the feed parser on its own: one caller reads raw lines
NextParse == (AllIdle /\ \E raw \in RawLines : LoadLineCall(1, raw)) \/ Return(1)
SpecParse == Init /\ [][NextParse]_vars

Spec == SpecSeq


\* ================================================================ claims
\* The addresses a feed line covers, from the text of the line: the
\* addresses that agree with the token on its first plen bits.
Covers(tok, a) ==
    LET plen == IF tok.kind = "host" THEN AddrBits(tok.ver) ELSE tok.plen
        h == Pow2(AddrBits(tok.ver) - plen)
    IN tok.kind \in {"host", "cidr"} /\ a.ver = tok.ver /\ (a.n \div h) = (tok.n \div h)

\* the lines of the file feed f resolves to now
LinesOf(f) ==
    LET path == ResolvePath(f)
    IN IF Exists(path) /\ files[path].readable THEN FileTexts[files[path].text] ELSE << >>

FeedCovers(f, a) == \E i \in 1..Len(LinesOf(f)) : Covers(LinesOf(f)[i], a)

LookupDone(p) ==
    /\ caller[p].pc = "done" /\ caller[p].op = "lookup"
    /\ caller[p].ip = "valid" /\ caller[p].result = "hits"

\* C1: after a successful full rebuild, lookup(a) includes feed F for every
\* address a inside every network of F's file, first and last address of a
\* range included.
C1_RebuiltLookupFindsEveryAddress ==
    \A p \in Procs :
        (LookupDone(p) /\ caller[p].rebuilt = "ok") =>
            \A f \in DOMAIN BLACKLIST_FEEDS : \A a \in QueryAddrs :
                FeedCovers(f, a) => f \in caller[p].hits[a]

\* a lookup that rebuilt reports a feed for the first and for the last
\* address of a range of more than one address
C1_Witness ==
    \E p \in Procs : \E f \in DOMAIN BLACKLIST_FEEDS : \E i \in 1..Len(LinesOf(f)) :
        LET tok == LinesOf(f)[i]
            h == Pow2(AddrBits(tok.ver) - tok.plen)
            first == Addr(tok.ver, (tok.n \div h) * h)
            last == Addr(tok.ver, (tok.n \div h) * h + h - 1)
        IN /\ LookupDone(p) /\ caller[p].rebuilt = "ok"
           /\ tok.kind = "cidr" /\ h > 1
           /\ f \in caller[p].hits[first] /\ f \in caller[p].hits[last]

\* C2: lookup(a) is empty for every address a outside every network of
\* every configured feed file, whatever calls and file changes came before.
C2_OutsideEveryNetworkIsEmpty ==
    \A p \in Procs :
        LookupDone(p) =>
            \A a \in QueryAddrs :
                (\A f \in DOMAIN BLACKLIST_FEEDS : ~FeedCovers(f, a)) => caller[p].hits[a] = {}

\* a lookup answers from a store that was rebuilt because a feed file had
\* been rewritten, and reports nothing for an address no file covers
C2_Witness ==
    \E p \in Procs : \E a \in QueryAddrs :
        /\ LookupDone(p) /\ caller[p].via = "store" /\ caller[p].rebuilt = "ok"
        /\ \E f \in DOMAIN BLACKLIST_FEEDS : GetMtime(ResolvePath(f)) >= 2
        /\ \A f \in DOMAIN BLACKLIST_FEEDS : ~FeedCovers(f, a)
        /\ \E b \in QueryAddrs : caller[p].hits[b] # {}
        /\ caller[p].hits[a] = {}

\* C3: with persistence enabled, lookup returns for every address the feeds
\* that the direct parse of the same feed files returns.
C3_StoreAnswerEqualsDirectParse ==
    \A p \in Procs :
        (LookupDone(p) /\ caller[p].via = "store") =>
            \A a \in QueryAddrs : caller[p].hits[a] = DirectHits(ResolveFiles, a)

\* the store answered with both feeds for one address and none for another
C3_Witness ==
    \E p \in Procs : \E a, b \in QueryAddrs :
        /\ LookupDone(p) /\ caller[p].via = "store"
        /\ caller[p].hits[a] = Feeds /\ caller[p].hits[b] = {}

\* a store query of caller p completes in this step
QueryStep(p) ==
    /\ caller[p].pc = "query" /\ caller'[p].pc = "done" /\ caller'[p].via = "store"

\* caller q is inside _rebuild_cache, past the removal of the store file
Rebuilding(q) == caller[q].pc \in {"init", "ins", "commit"}

\* C4: a store query that completes while another caller runs rebuild_cache
\* answers from the complete store as it was when that rebuild started or
\* from the complete store that rebuild commits.
C4_FullRebuildAtomicForReaders ==
    [][\A p, q \in Procs :
         (/\ p # q /\ QueryStep(p) /\ caller[p].rebuilt = "no"
          /\ caller[q].op = "rebuild_cache" /\ Rebuilding(q)) =>
            \/ \A a \in QueryAddrs :
                 caller'[p].hits[a] = StoreSelect(caller[q].db0.rows, a)
            \/ \A a \in QueryAddrs :
                 caller'[p].hits[a] = DirectHits(caller[q].feed_files, a)]_vars

\* C5: when rebuild_cache or the per-feed rebuild of update_feed has failed,
\* the rows and the meta entries of the store are those the call found.
C5_FailedRebuildKeepsPriorState ==
    \A p \in Procs :
        (/\ caller[p].pc = "done" /\ caller[p].rebuilt = "failed"
         /\ caller[p].op \in {"rebuild_cache", "update_feed"}) =>
            /\ db.rows = caller[p].db0.rows
            /\ db.meta = caller[p].db0.meta

\* C6: a lookup whose rebuild failed reports at least one feed for every
\* address that a configured feed file covers.
C6_FailedRebuildFallsBackToParse ==
    \A p \in Procs :
        (LookupDone(p) /\ caller[p].rebuilt = "failed") =>
            \A a \in QueryAddrs :
                (\E f \in DOMAIN BLACKLIST_FEEDS : FeedCovers(f, a)) => caller[p].hits[a] # {}

\* C7: every lookup call ends by returning a list of feed names.
C7_LookupNeverRaises ==
    \A p \in Procs :
        (caller[p].pc = "done" /\ caller[p].op = "lookup") => caller[p].result = "hits"

\* C8: at most one caller at a time is inside _rebuild_cache between the
\* removal of the store file and the commit.
C8_OneRebuildInFlight ==
    Cardinality({p \in Procs : Rebuilding(p)}) <= 1

\* what a store query reports about feed f on the rows given
Sees(rows, f) == [a \in QueryAddrs |-> f \in StoreSelect(rows, a)]

\* caller q is inside _update_db_for_feed on the current store file
PerFeedRebuild(q) ==
    /\ caller[q].op = "update_feed" /\ caller[q].pc \in {"udel", "ucommit"}
    /\ caller[q].conn = db.gen

\* C9: every step of a per-feed rebuild of feed F leaves what a store query
\* sees of every other feed as it was, and leaves what it sees of F as it was
\* or, at the commit, replaces it by F's complete new rows.
C9_PerFeedRebuildPreOrPost ==
    [][\A q \in Procs :
         (PerFeedRebuild(q) /\ caller'[q] # caller[q]) =>
            LET F == caller[q].feed_name IN
            /\ \A g \in Feeds \ {F} : Sees(db'.rows, g) = Sees(db.rows, g)
            /\ \/ Sees(db'.rows, F) = Sees(db.rows, F)
               \/ /\ caller'[q].rebuilt = "ok"
                  /\ Sees(db'.rows, F) = Sees(caller[q].txn.ins, F)]_vars

\* a per-feed rebuild of F has executed its DELETE and holds new rows that
\* differ from the stored ones, the store still shows F's old rows and rows of
\* the other feed, and the other caller is about to query the store
C9_Witness ==
    \E q \in Procs : \E p \in Procs \ {q} :
        LET F == caller[q].feed_name IN
        /\ PerFeedRebuild(q) /\ caller[q].pc = "ucommit" /\ F \in caller[q].txn.del
        /\ \E a \in QueryAddrs : Sees(db.rows, F)[a]
        /\ Sees(db.rows, F) # Sees(caller[q].txn.ins, F)
        /\ \E g \in Feeds \ {F} : \E a \in QueryAddrs : Sees(db.rows, g)[a]
        /\ caller[p].pc = "query" /\ db.tables

\* update_feed has returned after its per-feed rebuild committed
PerFeedRebuilt(p) ==
    /\ caller[p].pc = "done" /\ caller[p].op = "update_feed" /\ caller[p].rebuilt = "ok"

\* the rows of feed f, with their multiplicities
StoredRows(rows, f) == [r \in {x \in BagToSet(rows) : x.feed = f} |-> rows[r]]

\* C10: after a per-feed rebuild of F every other feed has the rows it had
\* before, and a store query answers as before for every address that is in
\* no range of F, old or new.
C10_PerFeedRebuildLeavesOtherFeeds ==
    \A p \in Procs :
        PerFeedRebuilt(p) =>
            LET F == caller[p].feed_name
                before == caller[p].db0.rows
            IN /\ \A g \in Feeds \ {F} : StoredRows(db.rows, g) = StoredRows(before, g)
               /\ \A a \in QueryAddrs :
                    (F \notin StoreSelect(before, a) /\ F \notin StoreSelect(db.rows, a)) =>
                        StoreSelect(db.rows, a) = StoreSelect(before, a)

\* a per-feed rebuild replaced F's rows by different ones while the store
\* held rows of G, and G alone is reported for some address before and after
C10_Witness ==
    \E p \in Procs : \E a \in QueryAddrs :
        LET F == caller[p].feed_name
            before == caller[p].db0.rows
        IN /\ PerFeedRebuilt(p)
           /\ StoredRows(before, F) # StoredRows(db.rows, F)
           /\ StoredRows(before, F) # EmptyBag
           /\ StoreSelect(before, a) = Feeds \ {F}
           /\ StoreSelect(db.rows, a) = Feeds \ {F}

\* the commit of caller p's _rebuild_cache succeeds in this step
RebuildCommitStep(p) ==
    /\ caller[p].pc = "commit" /\ caller'[p].rebuilt = "ok"
    /\ db # NoDb /\ caller[p].conn = db.gen

\* C11: when a full rebuild commits after the removal of the old store
\* file had failed, the networks the store holds are exactly those the
\* rebuild inserted from its feed files (a network may be held twice).
C11_FullRebuildDiscardsPriorRecords ==
    [][\A p \in Procs :
         (RebuildCommitStep(p) /\ caller[p].removed = "failed") =>
            BagToSet(db'.rows) = BagToSet(caller[p].txn.ins)]_vars

\* C12: whenever lookup answers from the store, the feed_mtimes committed in
\* the store equal the mtimes that call observed for the current feed files.
C12_StoreAnswerIsWarm ==
    [][\A p \in Procs :
         QueryStep(p) => StoredMtimes(db.meta) = caller[p].feed_mtimes]_vars

\* the fingerprint of a configured feed: the mtime of the file it resolves
\* to now, 0 without a file
Fingerprint(f) ==
    LET path == ResolvePath(f) IN IF Exists(path) THEN files[path].mtime ELSE 0

\* the fingerprints stored with the store differ from the current ones: a
\* feed was added, a feed was removed, or a feed file changed
Stale ==
    \/ DOMAIN StoredMtimes(db.meta) # DOMAIN BLACKLIST_FEEDS
    \/ \E f \in DOMAIN BLACKLIST_FEEDS : StoredMtimes(db.meta)[f] # Fingerprint(f)

\* lookup of caller p, persistence enabled, decides in this step whether to
\* rebuild the existing store, whose meta table it can read
CheckStep(p) ==
    /\ caller[p].pc = "check" /\ caller'[p].pc # "check"
    /\ _USE_CACHE /\ db # NoDb /\ db.tables /\ storeFault # "down"

\* C13: with persistence enabled, lookup goes on to rebuild the store exactly
\* when the stored fingerprints differ from the current ones.
C13_RebuildExactlyWhenStale ==
    [][\A p \in Procs : CheckStep(p) => ((caller'[p].pc = "rm") <=> Stale)]_vars

\* a lookup is about to rebuild a store that holds the fingerprint of a feed
\* no longer configured, and the fingerprints of the configured feeds agree
C13_Witness ==
    \E p \in Procs :
        /\ caller[p].pc = "rm" /\ caller[p].op = "lookup" /\ db # NoDb /\ db.tables
        /\ DOMAIN BLACKLIST_FEEDS # {}
        /\ \E g \in DOMAIN StoredMtimes(db.meta) : g \notin DOMAIN BLACKLIST_FEEDS
        /\ \A f \in DOMAIN BLACKLIST_FEEDS :
              f \in DOMAIN StoredMtimes(db.meta) /\ StoredMtimes(db.meta)[f] = Fingerprint(f)

\* when caller p's update_feed started, the store held up-to-date
\* fingerprints of every configured feed other than the one it updates
OthersUpToDate(p) ==
    LET F == caller[p].feed_name
        stored == StoredMtimes(caller[p].db0.meta)
    IN /\ (DOMAIN stored) \cup {F} = DOMAIN BLACKLIST_FEEDS
       /\ \A g \in (DOMAIN BLACKLIST_FEEDS) \ {F} : stored[g] = Fingerprint(g)

\* C14: after update_feed's per-feed rebuild on a store whose other feeds were
\* up to date, the stored fingerprints equal the current ones, for a URL
\* source and for a local-path source.
C14_PerFeedRebuildLeavesStoreWarm ==
    \A p \in Procs : (PerFeedRebuilt(p) /\ OthersUpToDate(p)) => ~Stale

\* a full rebuild has committed on the store file: only lines 162-164 write
\* the cache_version entry
FullyRebuilt == db # NoDb /\ "cache_version" \in DOMAIN db.meta

\* C15: lookup answers only from a store on which a full rebuild has
\* succeeded.
C15_AnswersOnlyFromFullyRebuiltStore ==
    [][\A p \in Procs : QueryStep(p) => FullyRebuilt]_vars

\* C16: every feed lookup reports for an address has a line of the address's
\* own family that covers it; a network of the other family never makes a
\* feed match.
C16_NoCrossFamilyMatch ==
    \A p \in Procs :
        LookupDone(p) =>
            \A a \in QueryAddrs : \A f \in caller[p].hits[a] :
                \E i \in 1..Len(LinesOf(f)) :
                    LinesOf(f)[i].ver = a.ver /\ Covers(LinesOf(f)[i], a)

\* the store answered for an address whose packed bytes lie between the
\* start and end keys of a network of the other family, and did not report
\* that network's feed
C16_Witness ==
    \E p \in Procs : \E a \in QueryAddrs : \E f \in DOMAIN BLACKLIST_FEEDS :
        LET nets == _load_networks_from_file(ResolvePath(f)) IN
        /\ LookupDone(p) /\ caller[p].via = "store"
        /\ f \notin caller[p].hits[a]
        /\ \E i \in 1..Len(nets) :
              /\ nets[i].ver # a.ver
              /\ BlobLE(_network_bounds_bytes(nets[i])[1], _ip_to_bytes(a))
              /\ BlobLE(_ip_to_bytes(a), _network_bounds_bytes(nets[i])[2])

\* rebuild_cache of caller p has returned, and the store it found had been
\* fully rebuilt from the feed files this call saw (same feeds, same mtimes)
RebuiltAgain(p) ==
    /\ caller[p].pc = "done" /\ caller[p].op = "rebuild_cache" /\ caller[p].rebuilt = "ok"
    /\ "cache_version" \in DOMAIN caller[p].db0.meta
    /\ StoredMtimes(caller[p].db0.meta) = caller[p].feed_mtimes

\* C17: a full rebuild of a store that was rebuilt from identical feed files
\* leaves the match set of every address as it was.
C17_FullRebuildIdempotent ==
    \A p \in Procs :
        RebuiltAgain(p) =>
            \A a \in QueryAddrs :
                StoreSelect(db.rows, a) = StoreSelect(caller[p].db0.rows, a)

\* the second rebuild ran on a store that matched both feeds for an address
C17_Witness ==
    \E p \in Procs : \E a \in QueryAddrs :
        /\ RebuiltAgain(p)
        /\ StoreSelect(caller[p].db0.rows, a) = Feeds
        /\ StoreSelect(db.rows, a) = Feeds

\* C18: lookup reports only feed names of the current mapping, whatever the
\* mapping was before.
C18_OnlyConfiguredFeedsReported ==
    \A p \in Procs :
        LookupDone(p) =>
            \A a \in QueryAddrs : caller[p].hits[a] \subseteq DOMAIN BLACKLIST_FEEDS

\* the mapping holds F alone, G's file is still there and covers an address,
\* and a lookup that rebuilt the store reports F but not G for it
C18_Witness ==
    \E p \in Procs : \E a \in QueryAddrs :
        /\ LookupDone(p) /\ caller[p].via = "store" /\ caller[p].rebuilt = "ok"
        /\ BLACKLIST_FEEDS = OnlyF
        /\ Exists(LocalOf("G"))
        /\ \E i \in 1..Len(ParseText(files[LocalOf("G")].text)) :
              InNet(a, ParseText(files[LocalOf("G")].text)[i])
        /\ caller[p].hits[a] = {"F"}

\* some configured feed is due for a fetch at threshold t
SomeDue(t) == \E f \in DOMAIN BLACKLIST_FEEDS : needs_refresh(f, t)

\* C19: whether lookup rebuilds does not depend on the fetch times: a stale
\* store is rebuilt also when no feed is due for a fetch, and a store that is
\* not stale is not rebuilt also when a feed is due.
C19_RebuildIndependentOfFetchTimes ==
    [][\A p \in Procs : \A t \in 0..MaxThreshold :
         CheckStep(p) =>
            /\ (Stale /\ ~SomeDue(t)) => caller'[p].pc = "rm"
            /\ (~Stale /\ SomeDue(t)) => caller'[p].pc = "query"]_vars

\* a lookup is about to rebuild because the file of a feed changed although
\* no configured feed is due for a fetch at the largest threshold
C19_Witness ==
    \E p \in Procs : \E f \in DOMAIN BLACKLIST_FEEDS :
        /\ caller[p].pc = "rm" /\ caller[p].op = "lookup" /\ db # NoDb /\ db.tables
        /\ ~SomeDue(MaxThreshold)
        /\ f \in DOMAIN StoredMtimes(db.meta)
        /\ StoredMtimes(db.meta)[f] # Fingerprint(f)

\* C20: needs_refresh returns True exactly when no fetch time is recorded for
\* the feed or more than threshold minutes have passed since it, and right
\* after a successful update_feed the feed is not due at any positive
\* threshold.
C20_NeedsRefreshExact ==
    \A p \in Procs :
        LET c == caller[p] IN
        /\ (c.pc = "done" /\ c.op = "needs_refresh") =>
              ((c.result = "True") <=>
                  \/ c.feed_name \notin DOMAIN fetched
                  \/ now - fetched[c.feed_name] > c.threshold_minutes)
        /\ (c.pc = "done" /\ c.op = "update_feed" /\ c.result = "True") =>
              \A t \in 1..MaxThreshold : ~needs_refresh(c.feed_name, t)

\* needs_refresh returned False for a fetch that is exactly threshold minutes
\* old, the threshold being positive
C20_Witness ==
    \E p \in Procs :
        LET c == caller[p] IN
        /\ c.pc = "done" /\ c.op = "needs_refresh" /\ c.result = "False"
        /\ c.threshold_minutes >= 1
        /\ c.feed_name \in DOMAIN fetched
        /\ now - fetched[c.feed_name] = c.threshold_minutes

\* the lines of a text that carry an address or a CIDR
ValidLines(lines) == SelectSeq(lines, LAMBDA tok : tok.kind \in {"host", "cidr"})

\* the network a valid line denotes, from the text of the line: the family,
\* the prefix length and the address with the bits after the prefix cleared
NetOf(tok) ==
    LET plen == IF tok.kind = "host" THEN AddrBits(tok.ver) ELSE tok.plen
        h == Pow2(AddrBits(tok.ver) - plen)
    IN [ver |-> tok.ver, n |-> (tok.n \div h) * h, plen |-> plen]

\* the rows the valid lines of the file at path yield for feed name
RECURSIVE ValidRows(_, _)
ValidRows(name, lines) ==
    IF lines = << >> THEN EmptyBag
    ELSE SetToBag({Row(name, NetOf(Head(lines)))}) (+) ValidRows(name, Tail(lines))

FileRows(name, path) ==
    IF Exists(path) /\ files[path].readable
    THEN ValidRows(name, ValidLines(FileTexts[files[path].text]))
    ELSE EmptyBag

\* the rows of the feeds order[1..k] of a full rebuild
RECURSIVE RowsUpTo(_, _, _)
RowsUpTo(feed_files, order, k) ==
    IF k = 0 THEN EmptyBag
    ELSE RowsUpTo(feed_files, order, k - 1) (+) FileRows(order[k], feed_files[order[k]])

\* C21: the networks ingested from a feed file are exactly the networks of
\* its valid lines, one per line: a malformed line (no address, octet out of
\* range, empty, comment only) yields none and the valid lines before and
\* after it still yield theirs.
C21_MalformedLinesSkipped ==
    \A p \in Procs :
        LET c == caller[p] IN
        /\ (c.pc \in {"ins", "commit"}) =>
              c.txn.ins = RowsUpTo(c.feed_files, FeedsOf(c.feed_files), c.idx - 1)
        /\ (c.pc = "ucommit") =>
              c.txn.ins = FileRows(c.feed_name, DataFile(c.feed_name))

\* a full rebuild has ingested a file with an empty and a malformed line
\* between two valid lines and holds the networks of both valid lines
C21_Witness ==
    \E p \in Procs : \E f \in DOMAIN caller[p].feed_files :
        LET c == caller[p]
            path == c.feed_files[f]
            lines == FileTexts[files[path].text]
        IN /\ c.pc = "commit" /\ Exists(path) /\ files[path].readable
           /\ \E i, j, k, l \in 1..Len(lines) :
                 /\ i < j /\ j < l /\ i < k /\ k < l
                 /\ lines[j].kind = "junk" /\ lines[k].kind = "blank"
                 /\ lines[i].kind \in {"host", "cidr"} /\ lines[l].kind \in {"host", "cidr"}
                 /\ BagIn(Row(f, NetOf(lines[i])), c.txn.ins)
                 /\ BagIn(Row(f, NetOf(lines[l])), c.txn.ins)

\* the _rebuild_cache of caller p's rebuild_cache or lookup has ended, and
\* the storage did not fail
RebuildEnded(p) ==
    /\ caller[p].op \in {"rebuild_cache", "lookup"} /\ caller[p].rebuilt # "no"
    /\ storeFault = "none"

\* C22: a rebuild whose feed files are partly missing or unreadable succeeds:
\* such a feed has no rows in the committed store, and every other feed has
\* the rows of its file.
C22_MissingOrUnreadableFeedNotFatal ==
    \A p \in Procs :
        RebuildEnded(p) =>
            /\ caller[p].rebuilt = "ok"
            /\ \A f \in DOMAIN caller[p].feed_files :
                  StoredRows(db.rows, f) = FileRows(f, caller[p].feed_files[f])

\* C23: a lookup of a string that is no IPv4 or IPv6 address returns the
\* empty list in its first step, and that step leaves the store, the feed
\* files and the fetch metadata as they were.
C23_InvalidAddressIsEmptyAndInert ==
    [][\A p \in Procs :
         (/\ caller'[p] # caller[p]
          /\ caller'[p].op = "lookup" /\ caller'[p].ip = "invalid") =>
            /\ caller[p].pc = "idle" /\ caller'[p].pc = "done"
            /\ caller'[p].result = "hits" /\ caller'[p].hits["invalid"] = {}
            /\ caller'[p].rebuilt = "no"
            /\ db' = db /\ files' = files /\ fetched' = fetched]_vars

\* a lookup of an unparseable address has returned while persistence is
\* enabled and the store is stale, so that the lookup of an address would
\* rebuild it
C23_Witness ==
    \E p \in Procs :
        /\ caller[p].pc = "done" /\ caller[p].op = "lookup" /\ caller[p].ip = "invalid"
        /\ caller[p].hits["invalid"] = {}
        /\ _USE_CACHE /\ db # NoDb /\ db.tables /\ Stale
        /\ \E a \in QueryAddrs : StoreSelect(db.rows, a) # {}

\* the store records the marker of the current schema version (line 163)
MarkerCurrent == db # NoDb /\ "cache_version" \in DOMAIN db.meta /\ db.meta["cache_version"] = "1"

\* C24: a store that records feed fingerprints records the version marker
\* with them, and a lookup that goes on to query the store without a rebuild
\* found the marker of the current version.
C24_VersionMarkerRecordedAndChecked ==
    /\ (db # NoDb /\ "feed_mtimes" \in DOMAIN db.meta) => MarkerCurrent
    /\ \A p \in Procs :
          (/\ caller[p].op = "lookup" /\ caller[p].pc = "query"
           /\ caller[p].rebuilt = "no") => MarkerCurrent

\* C25: with persistence disabled, no step of a lookup or of an update_feed
\* opens, creates or changes the store, and a lookup that returns a list
\* returns for every address the feeds whose current file has a network
\* holding it, found by parsing the files.
C25_DisabledPersistenceBypassesStore ==
    [][\A p \in Procs :
         (/\ ~_USE_CACHE /\ caller'[p] # caller[p]
          /\ caller'[p].op \in {"lookup", "update_feed"}) =>
            /\ db' = db
            /\ caller'[p].conn = 0 /\ caller'[p].chk_conn = 0
            /\ caller'[p].rebuilt = "no"
            /\ (/\ caller'[p].pc = "done" /\ caller'[p].op = "lookup"
                /\ caller'[p].ip = "valid" /\ caller'[p].result = "hits") =>
                  /\ caller'[p].via = "parse"
                  /\ \A a \in QueryAddrs :
                        caller'[p].hits[a] = DirectHits(ResolveFiles, a)]_vars

\* with persistence disabled a lookup has answered by parsing while a stale
\* store exists whose rows give a different answer for some address
C25_Witness ==
    \E p \in Procs : \E a \in QueryAddrs :
        /\ LookupDone(p) /\ caller[p].via = "parse" /\ ~_USE_CACHE
        /\ db # NoDb /\ db.tables /\ Stale
        /\ caller[p].hits[a] # {}
        /\ caller[p].hits[a] # StoreSelect(db.rows, a)

\* what a lookup hands to its caller: the returned list, or the exception
\* (lines 455 and 468 return hits and nothing else)
Output(p) == [result |-> caller[p].result, hits |-> caller[p].hits]

\* with persistence enabled the lookup of caller p answered by parsing the
\* feed files: its rebuild or its store query had failed
Degraded(p) == LookupDone(p) /\ caller[p].via = "parse" /\ _USE_CACHE

\* C26: what a lookup that fell back to direct parsing hands to its caller
\* differs from what any lookup that answered from the store hands to its
\* caller.
C26_FallbackIsSignalled ==
    \A p, q \in Procs :
        (Degraded(p) /\ LookupDone(q) /\ caller[q].via = "store") => Output(p) # Output(q)

\* the store, a feed file and the fetch metadata of directory dir
StoreOfDir(dir) == IF dir = DATA_DIR THEN db ELSE elsewhere.db
FileOfDir(dir, f) == IF dir = DATA_DIR THEN files[DataFile(f)] ELSE elsewhere.files[f]
MetaOfDir(dir) == IF MetaPath(dir) = METADATA_FILE THEN fetched ELSE elsewhere.fetched

WellFormed(r) ==
    /\ r.version \in {4, 6}
    /\ r.version = (IF r.cidr.ver = 6 THEN 6 ELSE 4)
    /\ Len(r.start) = AddrBytes(r.version) /\ Len(r.end) = AddrBytes(r.version)
    /\ \A i \in 1..Len(r.start) : r.start[i] \in 0..(ByteBase - 1)
    /\ \A i \in 1..Len(r.end) : r.end[i] \in 0..(ByteBase - 1)
    /\ BlobLE(r.start, r.end)

\* C28: every record of the store has keys of its family's length, the tag
\* of its family and start <= end under byte-wise comparison, whatever full
\* and per-feed rebuilds ran, succeeded or failed.
C28_RecordsWellFormed ==
    \A r \in BagToSet(db.rows) : WellFormed(r)

\* after a full and a per-feed rebuild the store holds an IPv4 and an IPv6
\* record, one of them with start below end
C28_Witness ==
    /\ \E p \in Procs : PerFeedRebuilt(p) /\ "cache_version" \in DOMAIN db.meta
    /\ \E r, q \in BagToSet(db.rows) :
          /\ r.version = 4 /\ q.version = 6
          /\ q.start # q.end /\ BlobLE(q.start, q.end)

\* the lines of the feed texts
AllLines == UNION {{FileTexts[t][i] : i \in 1..Len(FileTexts[t])} : t \in Texts}

\* the feed lines that denote the network of record r
LinesFor(r) ==
    {tok \in AllLines : tok.kind \in {"host", "cidr"} /\ NetOf(tok) = r.cidr}

\* the address a lies between the keys of record r
InRange(r, a) ==
    /\ r.version = (IF a.ver = 6 THEN 6 ELSE 4)
    /\ BlobLE(r.start, _ip_to_bytes(a)) /\ BlobLE(_ip_to_bytes(a), r.end)

\* the record of feed line tok is exact: its start key is the first address
\* of the line's network (the line's address with the bits after the prefix
\* cleared), its end key the last one, and an address (the bounds of every
\* network, their neighbours, the lowest and the highest address) lies
\* between the keys exactly when it agrees with the line on the prefix
Exact(tok) ==
    LET plen == IF tok.kind = "host" THEN AddrBits(tok.ver) ELSE tok.plen
        h == Pow2(AddrBits(tok.ver) - plen)
        first == (tok.n \div h) * h
        r == Row("F", NetOf(tok))
    IN /\ r.start = ToBytes(first, AddrBytes(tok.ver))
       /\ r.end = ToBytes(first + h - 1, AddrBytes(tok.ver))
       /\ \A a \in QueryAddrs : InRange(r, a) <=> Covers(tok, a)

\* the records of the feed lines whose record is exact
ExactRecords ==
    UNION {{Row(f, NetOf(tok)) : f \in Feeds} :
              tok \in {l \in AllLines : l.kind \in {"host", "cidr"} /\ Exact(l)}}

\* C29: every record of the store is the record of a feed line, with the
\* first address of the line's network (host bits cleared) as start key and
\* its last address as end key, so that an address lies between the keys
\* exactly when it is in the line's network.
C29_BoundsAreFirstAndLastAddress ==
    \A r \in BagToSet(db.rows) : r \in ExactRecords

\* the store holds the record of a feed line that had host bits set: the
\* line's own address is above the start key and inside the range
C29_Witness ==
    \E r \in BagToSet(db.rows) : \E tok \in LinesFor(r) :
        /\ tok.kind = "cidr" /\ tok.plen < AddrBits(tok.ver)
        /\ r.start # _ip_to_bytes(Addr(tok.ver, tok.n))
        /\ InRange(r, Addr(tok.ver, tok.n))
        /\ \E a \in QueryAddrs : a.ver = tok.ver /\ ~InRange(r, a)

\* the file a configured feed is to be read from: its source when that is a
\* local path that exists, DATA_DIR/<name>.txt for a URL and for a path that
\* does not exist
SourceFile(f) ==
    LET src == BLACKLIST_FEEDS[f]
    IN IF src[1] = "url" THEN DataFile(f)
       ELSE IF files[src] = NoFile THEN DataFile(f)
       ELSE src

\* C30: a lookup and a rebuild_cache both take every configured feed from
\* its source when that is an existing local path and from
\* DATA_DIR/<name>.txt otherwise; the rows a successful rebuild of either
\* commits for a feed and the feeds a parsing lookup reports are those of
\* that file.
C30_FeedsResolveToSameFile ==
    \A p \in Procs :
        LET c == caller[p] IN
        (c.op \in {"lookup", "rebuild_cache"} /\ c.ip # "invalid") =>
            /\ DOMAIN c.feed_files = DOMAIN BLACKLIST_FEEDS
            /\ \A f \in DOMAIN BLACKLIST_FEEDS :
                  /\ c.feed_files[f] = SourceFile(f)
                  /\ c.feed_mtimes[f] = (IF files[SourceFile(f)] = NoFile THEN 0
                                         ELSE files[SourceFile(f)].mtime)
                  /\ c.rebuilt = "ok" => StoredRows(db.rows, f) = FileRows(f, SourceFile(f))
            /\ (LookupDone(p) /\ c.via = "parse") =>
                  \A a \in QueryAddrs :
                      c.hits[a] = {f \in DOMAIN BLACKLIST_FEEDS :
                                      \E r \in BagToSet(FileRows(f, SourceFile(f))) : InRange(r, a)}

\* G's source is an existing local path and DATA_DIR/G.txt exists too with
\* other networks; F is read from DATA_DIR/F.txt; a lookup has answered from
\* the store without rebuilding it, and the store holds G's rows from the
\* local path
C30_Witness ==
    \E p \in Procs :
        /\ LookupDone(p) /\ caller[p].via = "store" /\ caller[p].rebuilt = "no"
        /\ "cache_version" \in DOMAIN db.meta
        /\ SourceFile("G") = LocalOf("G") /\ files[DataFile("G")] # NoFile
        /\ FileRows("G", LocalOf("G")) # FileRows("G", DataFile("G"))
        /\ StoredRows(db.rows, "G") = FileRows("G", LocalOf("G"))
        /\ files[DataFile("F")] # NoFile
        /\ StoredRows(db.rows, "F") = FileRows("F", DataFile("F"))
        /\ StoredRows(db.rows, "F") # EmptyBag

\* C31: no step of a lookup or of a rebuild_cache changes a feed file or a
\* recorded fetch time, and the fetch times change only in steps of
\* update_feed and ensure_feeds.
C31_LookupAndRebuildDownloadNothing ==
    [][/\ \A p \in Procs :
            (/\ caller'[p] # caller[p]
             /\ {caller[p].op, caller'[p].op} \cap {"lookup", "rebuild_cache"} # {}) =>
                /\ files' = files /\ clock' = clock /\ fetched' = fetched
       /\ (fetched' # fetched) =>
            \E p \in Procs : caller[p].op \in {"update_feed", "ensure_feeds"}
                             /\ caller'[p] # caller[p]]_vars

\* a lookup has rebuilt the store and returned while one feed was never
\* fetched and the other is due for a fetch at threshold 0, and neither has
\* a new fetch time
C31_Witness ==
    \E p \in Procs :
        /\ LookupDone(p) /\ caller[p].rebuilt = "ok" /\ caller[p].via = "store"
        /\ "G" \in DOMAIN BLACKLIST_FEEDS /\ "G" \notin DOMAIN fetched
        /\ "F" \in DOMAIN fetched /\ fetched["F"] < now /\ needs_refresh("F", 0)

\* C32: the listing returns in one step that changes no feed file, no fetch
\* time, no store and no setting, and it reports for every configured feed
\* its source or the existing local file the feed is read from.
C32_ListFeedsReadOnly ==
    [][\A p \in Procs :
         (caller'[p] # caller[p] /\ caller'[p].op = "list_feeds") =>
            /\ caller[p].pc = "idle" /\ caller'[p].pc = "done"
            /\ caller'[p].conn = 0 /\ caller'[p].chk_conn = 0 /\ caller'[p].rebuilt = "no"
            /\ db' = db /\ files' = files /\ fetched' = fetched /\ clock' = clock
            /\ elsewhere' = elsewhere /\ BLACKLIST_FEEDS' = BLACKLIST_FEEDS
            /\ DOMAIN caller'[p].hits = DOMAIN BLACKLIST_FEEDS
            /\ \A f \in DOMAIN BLACKLIST_FEEDS :
                  LET shown == caller'[p].hits[f] IN
                  /\ shown \in {BLACKLIST_FEEDS[f], SourceFile(f)}
                  /\ shown # BLACKLIST_FEEDS[f] => files[shown] # NoFile
                  /\ (BLACKLIST_FEEDS[f][1] = "local" /\ files[BLACKLIST_FEEDS[f]] # NoFile)
                        => shown = BLACKLIST_FEEDS[f]]_vars

\* the listing has returned F's URL and G's local path while persistence is
\* enabled and no store exists
C32_Witness ==
    \E p \in Procs :
        /\ caller[p].pc = "done" /\ caller[p].op = "list_feeds"
        /\ BLACKLIST_FEEDS = DefaultFeeds
        /\ caller[p].hits["F"] = UrlOf("F") /\ caller[p].hits["G"] = LocalOf("G")
        /\ _USE_CACHE /\ db = NoDb /\ "G" \notin DOMAIN fetched

\* the position of the earliest comment marker of a raw line, one past the
\* end of the line when it has none
CommentAt(raw) ==
    LET at == {i \in 1..Len(raw) : \E m \in DOMAIN Markers : raw[i].kind = Markers[m]}
    IN IF at = {} THEN Len(raw) + 1 ELSE CHOOSE i \in at : \A j \in at : i <= j

\* the address candidate of a raw line: of the text before the earliest
\* marker, the first white-space separated token that has anything but
\* quotes, without the quotes at its ends
Candidate(raw) ==
    LET rest == SubSeq(raw, 1, CommentAt(raw) - 1)
        text == {i \in 1..Len(rest) : rest[i].kind \notin {"space", "quote"}}
    IN IF text = {} THEN << >>
       ELSE LET j == CHOOSE i \in text : \A m \in text : i <= m
                same == {i \in text : \A m \in j..i : rest[m].kind # "space"}
                k == CHOOSE i \in same : \A m \in same : m <= i
            IN SubSeq(rest, j, k)

IsAddress(cand) == Len(cand) = 1 /\ cand[1].kind \in {"host", "cidr"}

C34_BareAddressIsSingleAddressNetwork ==
    \A p \in Procs :
        LET c == caller[p]
            cand == Candidate(c.data_text)
        IN (/\ c.pc = "done" /\ c.op = "_load_networks_from_file"
            /\ Len(cand) = 1 /\ cand[1].kind = "host") =>
               /\ Len(c.hits) = 1
               /\ c.hits[1].ver = cand[1].ver
               /\ c.hits[1].plen = AddrBits(cand[1].ver)
               /\ _network_bounds_bytes(c.hits[1])[1] = _ip_to_bytes(Addr(cand[1].ver, cand[1].n))
               /\ _network_bounds_bytes(c.hits[1])[2] = _ip_to_bytes(Addr(cand[1].ver, cand[1].n))

\* a line that is a bare IPv6 address was read and yielded one network of
\* full prefix length
C34_Witness ==
    \E p \in Procs :
        LET c == caller[p] IN
        /\ c.pc = "done" /\ c.op = "_load_networks_from_file"
        /\ Len(c.data_text) = 1 /\ c.data_text[1].kind = "host"
        /\ c.data_text[1].ver = 6
        /\ Len(c.hits) = 1 /\ c.hits[1].plen = AddrBits(6)

\* C35: when the per-feed store update inside update_feed raised, the call
\* returns True, the feed's file holds the fetched text, the fetch time of
\* the feed is recorded, and the store holds the rows and the fingerprint
\* snapshot it held when the call started.
C35_StoreFailureDoesNotFailUpdate ==
    \A p \in Procs :
        LET c == caller[p] IN
        (c.pc = "done" /\ c.op = "update_feed" /\ c.rebuilt = "failed") =>
            /\ c.result = "True"
            /\ Exists(DataFile(c.feed_name))
            /\ files[DataFile(c.feed_name)].text = c.data_text
            /\ c.feed_name \in DOMAIN fetched
            /\ fetched[c.feed_name] = now
            /\ db.rows = c.db0.rows
            /\ db.meta = c.db0.meta

\* an update_feed call ended with its store update failed while the store
\* held rows and fingerprints of another text of the feed
C35_Witness ==
    \E p \in Procs :
        LET c == caller[p] IN
        /\ c.pc = "done" /\ c.op = "update_feed" /\ c.rebuilt = "failed"
        /\ c.db0.rows # EmptyBag
        /\ "feed_mtimes" \in DOMAIN c.db0.meta
        /\ \E r \in BagToSet(c.db0.rows) : r.feed = c.feed_name
        /\ FileRows(c.feed_name, DataFile(c.feed_name)) #
              [r \in {x \in BagToSet(db.rows) : x.feed = c.feed_name} |-> CopiesIn(r, db.rows)]

\* C36: when ensure_feeds(0) has returned, update_feed was called in it for
\* every configured feed, whatever the recorded fetch times were and
\* whether or not the fetches succeeded.
C36_ThresholdZeroRefetchesEveryFeed ==
    \A p \in Procs :
        LET c == caller[p] IN
        (c.pc = "done" /\ c.op = "ensure_feeds" /\ c.threshold_minutes = 0) =>
            {c.hits[i] : i \in DOMAIN c.hits} = DOMAIN BLACKLIST_FEEDS

\* C37: an update_feed call that returns False has changed neither the
\* feed's file nor the recorded fetch times nor the store: it returns from
\* its first step or right after the fetch, before which it has written
\* nothing, and the returning step writes nothing either.
C37_FailedUpdateChangesNothing ==
    [][\A p \in Procs :
          (/\ caller[p].pc # "done"
           /\ caller'[p].pc = "done" /\ caller'[p].op = "update_feed"
           /\ caller'[p].result = "False") =>
              /\ caller[p].pc \in {"idle", "save"}
              /\ files' = files /\ fetched' = fetched /\ db' = db]_vars

\* the store holds a committed fingerprint snapshot that equals the
\* fingerprints of the configured feeds as they are now
SnapshotCurrent ==
    /\ db # NoDb
    /\ "feed_mtimes" \in DOMAIN db.meta
    /\ StoredMtimes(db.meta) = ResolveMtimes

StatsQuery ==
    LET feeds == {r.feed : r \in BagToSet(db.rows)}
    IN [f \in feeds |-> BagCardinality([r \in {x \in BagToSet(db.rows) : x.feed = f} |->
                                           CopiesIn(r, db.rows)])]

\* C39: when every caller has finished, the count the stats query reports
\* for a configured feed is the number of networks in the feed's file as
\* it is now.
C39_StatsCountEqualsParsedNetworks ==
    (AllIdle /\ db # NoDb /\ db.tables) =>
        \A f \in DOMAIN StatsQuery :
            f \in DOMAIN BLACKLIST_FEEDS =>
                StatsQuery[f] = Len(_load_networks_from_file(ResolvePath(f)))

====
